---------------------------- MODULE Spec2Model ----------------------------
(***************************************************************************)
(* Model of the API client of the MediCare AI frontend                     *)
(* (src/frontend/src/lib/api.ts): five typed wrappers around fetch, each   *)
(* wrapped by withTimeout and normalised by handleJSON.                    *)
(*                                                                         *)
(* JavaScript runs every task to completion, so an action of this model is *)
(* one task of the event loop together with the microtasks it drains: the  *)
(* invocation of an operation, the settlement of a fetch promise, the end  *)
(* of a body read, the firing of a timer.                                  *)
(***************************************************************************)
EXTENDS Integers, Sequences, FiniteSets, TLC

(***************************************************************************)
(* JavaScript values.  Every value carries its type, as typeof reports it  *)
(* (null and arrays report "object").                                      *)
(***************************************************************************)
Undefined == [t |-> "undefined"]
Null      == [t |-> "null"]
Str(s)    == [t |-> "string", v |-> s]
Num(n)    == [t |-> "number", v |-> n]
Bool(b)   == [t |-> "boolean", v |-> b]
Arr(s)    == [t |-> "array", v |-> s]
Obj(f)    == [t |-> "object", v |-> f]

typeof(x) == IF x.t \in {"null", "array"} THEN "object" ELSE x.t

\* a ?? b
Coalesce(a, b) == IF a = Undefined \/ a = Null THEN b ELSE a

\* obj[key] of a non-null object: undefined when the object has no such key
\* (an array has no named keys)
Prop(obj, key) ==
    IF obj.t = "object" /\ key \in DOMAIN obj.v THEN obj.v[key] ELSE Undefined

\* String(b) of a boolean
BoolToString(b) == IF b THEN "true" ELSE "false"

\* new Error(msg), msg a string
Error(msg) == [t |-> "Error", name |-> "Error", message |-> msg]

\* the TypeError a failed fetch rejects with
TypeError(msg) == [t |-> "Error", name |-> "TypeError", message |-> msg]

\* a default parameter or destructuring default: it applies to undefined only
Default(x, d) == IF x = Undefined THEN d ELSE x

getStringField(obj, key) ==
    IF typeof(obj) # "object" \/ obj = Null THEN Undefined
    ELSE LET v == Prop(obj, key)
         IN  IF typeof(v) = "string" THEN v ELSE Undefined

(***************************************************************************)
(* Response bodies, as the text received, and Response.json() on them.     *)
(***************************************************************************)
BodyEmpty        == ""
BodyHtml         == "<html>Bad Gateway</html>"
BodyTruncated    == "{\"detail\":\"X"
BodyNull         == "null"
BodyNumber       == "7"
BodyString       == "\"oops\""
BodyArray        == "[]"
BodyEmptyObject  == "{}"
BodyDetail       == "{\"detail\":\"X\"}"
BodyDetailEmpty  == "{\"detail\":\"\"}"
BodyMessage      == "{\"message\":\"Y\"}"
BodyBoth         == "{\"detail\":\"X\",\"message\":\"Y\",\"code\":7}"
BodyDetailNumber == "{\"detail\":404,\"message\":\"Y\"}"
BodyDetailNull   == "{\"detail\":null,\"message\":\"Y\"}"
BodyDetailArray  == "{\"detail\":[]}"
BodyChat         == "{\"response\":\"R\",\"language\":\"en\",\"timestamp\":\"T\"}"
BodyResearch     == "{\"query\":\"x\",\"results\":[],\"summary\":\"S\",\"timestamp\":\"T\"}"
BodyResearch2    == "{\"query\":\"y\",\"results\":[],\"summary\":\"S2\",\"timestamp\":\"T\"}"
BodyImage        == "{\"extracted_text\":\"E\",\"analysis\":{\"summary\":\"A\"}}"
BodyImage2       == "{\"extracted_text\":\"E2\",\"analysis\":{\"summary\":\"A2\"}}"

\* the object with the given keys and values
NoFields == [k \in {} |-> Undefined]
Fields1(k1, v1) == [k \in {k1} |-> v1]
Fields2(k1, v1, k2, v2) == [k \in {k1, k2} |-> IF k = k1 THEN v1 ELSE v2]
Fields3(k1, v1, k2, v2, k3, v3) ==
    [k \in {k1, k2, k3} |-> IF k = k1 THEN v1 ELSE IF k = k2 THEN v2 ELSE v3]
Fields4(k1, v1, k2, v2, k3, v3, k4, v4) ==
    [k \in {k1, k2, k3, k4} |->
        IF k = k1 THEN v1 ELSE IF k = k2 THEN v2 ELSE IF k = k3 THEN v3 ELSE v4]

Parsed(v)   == [ok |-> TRUE, value |-> v]
SyntaxError == [ok |-> FALSE, value |-> Undefined]

\* JSON.parse of a body text: the value, or a SyntaxError
JSONparse(text) ==
    CASE text = BodyNull         -> Parsed(Null)
      [] text = BodyNumber       -> Parsed(Num(7))
      [] text = BodyString       -> Parsed(Str("oops"))
      [] text = BodyArray        -> Parsed(Arr(<<>>))
      [] text = BodyEmptyObject  -> Parsed(Obj(NoFields))
      [] text = BodyDetail       -> Parsed(Obj(Fields1("detail", Str("X"))))
      [] text = BodyDetailEmpty  -> Parsed(Obj(Fields1("detail", Str(""))))
      [] text = BodyMessage      -> Parsed(Obj(Fields1("message", Str("Y"))))
      [] text = BodyBoth         ->
            Parsed(Obj(Fields3("detail", Str("X"), "message", Str("Y"),
                               "code", Num(7))))
      [] text = BodyDetailNumber ->
            Parsed(Obj(Fields2("detail", Num(404), "message", Str("Y"))))
      [] text = BodyDetailNull   ->
            Parsed(Obj(Fields2("detail", Null, "message", Str("Y"))))
      [] text = BodyDetailArray  -> Parsed(Obj(Fields1("detail", Arr(<<>>))))
      [] text = BodyChat         ->
            Parsed(Obj(Fields3("response", Str("R"), "language", Str("en"),
                               "timestamp", Str("T"))))
      [] text = BodyResearch     ->
            Parsed(Obj(Fields4("query", Str("x"), "results", Arr(<<>>),
                               "summary", Str("S"), "timestamp", Str("T"))))
      [] text = BodyResearch2    ->
            Parsed(Obj(Fields4("query", Str("y"), "results", Arr(<<>>),
                               "summary", Str("S2"), "timestamp", Str("T"))))
      [] text = BodyImage        ->
            Parsed(Obj(Fields2("extracted_text", Str("E"),
                               "analysis", Obj(Fields1("summary", Str("A"))))))
      [] text = BodyImage2       ->
            Parsed(Obj(Fields2("extracted_text", Str("E2"),
                               "analysis", Obj(Fields1("summary", Str("A2"))))))
      [] OTHER                   -> SyntaxError

\* a Response: the status line and the body text
Response(status, statusText, body) ==
    [status |-> status, statusText |-> statusText, body |-> body]

\* Response.ok
ResponseOk(res) == res.status >= 200 /\ res.status <= 299

\* the settlement of res.json()
resJson(res) == JSONparse(res.body)

(***************************************************************************)
(* A promise's settlement.                                                 *)
(***************************************************************************)
Pending        == [state |-> "pending", value |-> Undefined]
Fulfilled(v)   == [state |-> "fulfilled", value |-> v]
Rejected(e)    == [state |-> "rejected", value |-> e]

\* handleJSON consulting "message" before "detail"
handleJSONMessageFirst(res, j) ==
    LET payload == IF j.ok THEN j.value ELSE Null
    IN  IF ~(res.status >= 200 /\ res.status <= 299)
        THEN Rejected(Error(
               Coalesce(
                 Coalesce(
                   Coalesce(getStringField(payload, "message"),
                            getStringField(payload, "detail")),
                   Str(res.statusText)),
                 Str("Request failed"))))
        ELSE Fulfilled(payload)

\* handleJSON consulting "detail" only
handleJSONDetailOnly(res, j) ==
    LET payload == IF j.ok THEN j.value ELSE Null
    IN  IF ~(res.status >= 200 /\ res.status <= 299)
        THEN Rejected(Error(
               Coalesce(
                 Coalesce(getStringField(payload, "detail"), Str(res.statusText)),
                 Str("Request failed"))))
        ELSE Fulfilled(payload)

\* handleJSON returning an object payload only, and null for any other
handleJSONObjectsOnly(res, j) ==
    LET payload == IF j.ok /\ j.value.t = "object" THEN j.value ELSE Null
    IN  IF ~(res.status >= 200 /\ res.status <= 299)
        THEN Rejected(Error(
               Coalesce(
                 Coalesce(
                   Coalesce(getStringField(payload, "detail"),
                            getStringField(payload, "message")),
                   Str(res.statusText)),
                 Str("Request failed"))))
        ELSE Fulfilled(payload)

\* handleJSON throwing when the body of a 2xx response does not parse
handleJSONParseThrows(res, j) ==
    LET payload == IF j.ok THEN j.value ELSE Null
    IN  IF ~(res.status >= 200 /\ res.status <= 299)
        THEN Rejected(Error(
               Coalesce(
                 Coalesce(
                   Coalesce(getStringField(payload, "detail"),
                            getStringField(payload, "message")),
                   Str(res.statusText)),
                 Str("Request failed"))))
        ELSE IF j.ok THEN Fulfilled(payload)
        ELSE Rejected([t |-> "Error", name |-> "SyntaxError",
                       message |-> Str("Unexpected token")])

\* handleJSON, resumed with the settlement j of res.json()
handleJSON(res, j) ==
    LET payload == IF j.ok THEN j.value ELSE Null
    IN  IF ~ResponseOk(res)
        THEN LET msg ==
                   Coalesce(
                     Coalesce(
                       Coalesce(getStringField(payload, "detail"),
                                getStringField(payload, "message")),
                       Str(res.statusText)),
                     Str("Request failed"))
             IN  Rejected(Error(msg))
        ELSE Fulfilled(payload)

(***************************************************************************)
(* The requests the five operations build.                                 *)
(***************************************************************************)
NEXT_PUBLIC_API_BASE_URL == Undefined

BASE ==
    Coalesce(NEXT_PUBLIC_API_BASE_URL,
             Str("https://seed-medicare-ai-assistant.onrender.com"))

\* JSON.stringify of an object literal, given as its members in order: a
\* member whose value is undefined is left out
JSONstringify(members) ==
    [kind |-> "json", members |-> SelectSeq(members, LAMBDA m : m[2] # Undefined)]

\* a FormData with the entries appended in order
FormData(entries) == [kind |-> "multipart", members |-> entries]

JsonHeaders == Fields1("Content-Type", "application/json")

\* the members of a body with the given name
Members(body, name) == SelectSeq(body.members, LAMBDA m : m[1] = name)

\* the signal of the AbortController withTimeout creates for call c
CtrlSignal(c) == [t |-> "AbortSignal", ctrl |-> c]

\* an init object carrying the signal of withTimeout's controller
InitSignalAttached(c) == CtrlSignal(c)

\* the init object a wrapper hands to fetch: no wrapper sets a signal
InitSignal(c) == Undefined

\* chat without the default of language
chatRequestNoDefault(message, language0) ==
    [url     |-> <<BASE, "/api/chat">>,
     method  |-> "POST",
     headers |-> JsonHeaders,
     body    |-> JSONstringify(<< <<"message", message>>,
                                  <<"language", language0>> >>)]

chatRequest(message, language0) ==
    LET language == Default(language0, Str("en"))
    IN  [url     |-> <<BASE, "/api/chat">>,
         method  |-> "POST",
         headers |-> JsonHeaders,
         body    |-> JSONstringify(<< <<"message", message>>,
                                      <<"language", language>> >>)]

analyzeTextRequest(text, opts0) ==
    LET opts     == Default(opts0, Obj(NoFields))
        context  == Default(Prop(opts, "context"), Str(""))
        language == Default(Prop(opts, "language"), Str("en"))
    IN  [url     |-> <<BASE, "/api/analyze-text">>,
         method  |-> "POST",
         headers |-> JsonHeaders,
         body    |-> JSONstringify(<< <<"text", text>>,
                                      <<"context", context>>,
                                      <<"language", language>> >>)]

analyzeImageRequest(file, opts0) ==
    LET opts              == Default(opts0, Obj(NoFields))
        language          == Default(Prop(opts, "language"), Str("en"))
        extract_text_only == Default(Prop(opts, "extract_text_only"), Bool(FALSE))
    IN  [url     |-> <<BASE, "/api/analyze-image">>,
         method  |-> "POST",
         headers |-> NoFields,
         body    |-> FormData(<< <<"file", file>>,
                                 <<"language", language>>,
                                 <<"extract_text_only",
                                   Str(BoolToString(extract_text_only.v))>> >>)]

extractTextRequest(file) ==
    [url     |-> <<BASE, "/api/extract-text">>,
     method  |-> "POST",
     headers |-> NoFields,
     body    |-> FormData(<< <<"file", file>> >>)]

researchRequest(query, opts0) ==
    LET opts        == Default(opts0, Obj(NoFields))
        max_results == Default(Prop(opts, "max_results"), Num(5))
        language    == Default(Prop(opts, "language"), Str("en"))
    IN  [url     |-> <<BASE, "/api/research">>,
         method  |-> "POST",
         headers |-> JsonHeaders,
         body    |-> JSONstringify(<< <<"query", query>>,
                                      <<"max_results", max_results>>,
                                      <<"language", language>> >>)]

\* an invocation: the operation and the two arguments it is called with (an
\* omitted argument is undefined)
Invocation(op, a1, a2) == [op |-> op, a1 |-> a1, a2 |-> a2]

\* the request an invocation hands to fetch
Request(inv) ==
    CASE inv.op = "chat"         -> chatRequest(inv.a1, inv.a2)
      [] inv.op = "analyzeText"  -> analyzeTextRequest(inv.a1, inv.a2)
      [] inv.op = "analyzeImage" -> analyzeImageRequest(inv.a1, inv.a2)
      [] inv.op = "extractText"  -> extractTextRequest(inv.a1)
      [] inv.op = "research"     -> researchRequest(inv.a1, inv.a2)

(***************************************************************************)
(* The inputs: the invocations a caller can make and the responses the     *)
(* remote service can give.                                                *)
(***************************************************************************)
MaxCalls == 2

CallIds == 1..MaxCalls

File1 == [t |-> "File", name |-> "scan.png"]

Absent == Undefined

\* an options object holding the keys whose value is given
Opts(k1, v1, k2, v2) ==
    Obj([k \in {x \in {k1, k2} : (IF x = k1 THEN v1 ELSE v2) # Absent} |->
            IF k = k1 THEN v1 ELSE v2])

OptLanguage   == {Absent, Str("en"), Str("fr")}
OptContext    == {Absent, Str(""), Str("ctx")}
OptExtract    == {Absent, Bool(FALSE), Bool(TRUE)}
OptMaxResults == {Absent, Num(1), Num(5), Num(10)}

AllInvocations ==
    {Invocation("chat", Str("hi"), l) : l \in OptLanguage}
    \cup {Invocation("analyzeText", Str("t"), Undefined)}
    \cup {Invocation("analyzeText", Str("t"), Opts("context", x, "language", l)) :
            x \in OptContext, l \in OptLanguage}
    \cup {Invocation("analyzeImage", File1, Undefined)}
    \cup {Invocation("analyzeImage", File1,
                     Opts("language", l, "extract_text_only", e)) :
            l \in OptLanguage, e \in OptExtract}
    \cup {Invocation("extractText", File1, Undefined)}
    \cup {Invocation("research", Str("x"), Undefined)}
    \cup {Invocation("research", Str("x"), Opts("max_results", n, "language", l)) :
            n \in OptMaxResults, l \in OptLanguage}

Bodies ==
    {BodyEmpty, BodyHtml, BodyTruncated, BodyNull, BodyNumber, BodyString,
     BodyArray, BodyEmptyObject, BodyDetail, BodyDetailEmpty, BodyMessage,
     BodyBoth, BodyDetailNumber, BodyDetailNull, BodyDetailArray, BodyChat,
     BodyResearch, BodyResearch2, BodyImage, BodyImage2}

AllResponses ==
    {Response(s, st, b) : s \in {200, 201, 404, 500},
                          st \in {"", "Status Text"}, b \in Bodies}

\* the inputs of the concurrent specification: one invocation of each
\* operation, and one response of each kind
SomeInvocations ==
    {Invocation("chat", Str("hi"), Undefined),
     Invocation("analyzeText", Str("t"), Undefined),
     Invocation("analyzeImage", File1, Undefined),
     Invocation("extractText", File1, Undefined),
     Invocation("research", Str("x"), Undefined)}

SomeResponses ==
    {Response(200, "OK", BodyChat),
     Response(200, "OK", BodyResearch),
     Response(404, "Not Found", BodyDetail),
     Response(500, "", BodyHtml)}

(***************************************************************************)
(* The state: per call, the closure of the operation and of withTimeout;   *)
(* shared, the requests handed to fetch and the timers of the event loop.  *)
(***************************************************************************)
VARIABLES
    pc,         \* pc[c]: where call c is: "idle", "fetch" (awaiting withTimeout),
                \* "json" (handleJSON awaiting res.json()), "settled"
    call,       \* call[c]: the invocation
    log,        \* the requests handed to fetch, in order, each with its call
    p,          \* p[c]: the promise fetch returned to call c
    wrapped,    \* wrapped[c]: the promise withTimeout returned to call c
    outcome,    \* outcome[c]: the promise the operation returned to its caller
    timers,     \* the pending timers of the event loop
    nextTimer,  \* the id the next setTimeout returns
    t,          \* t[c]: the timer id withTimeout holds for call c
    aborted     \* aborted[c]: ctrl.signal.aborted of call c's AbortController

callVars == <<pc, call, log, p, wrapped, outcome, timers, nextTimer, t, aborted>>

(***************************************************************************)
(* The state of the page (src/frontend/src/app/page.tsx): the React state  *)
(* of HomePage, the "lang" item of localStorage, and the notifications.    *)
(* A state is the page between two tasks: the state updates of a task are  *)
(* applied when it ends.                                                   *)
(***************************************************************************)
VARIABLES
    phase,          \* "rendered": first render done, effects not yet run;
                    \* "mounted": the mount effects have run
    lang,           \* useState lang
    langUpdates,    \* the setLang updates queued and not yet rendered
    langEffect,     \* whether the effect that stores lang is due
    localStorage,   \* the item "lang" of localStorage (null: none)
    chatInput,      \* useState chatInput
    chatLoading,    \* useState chatLoading
    messages,       \* useState messages
    imageLoading,   \* useState imageLoading
    extractedText,  \* useState extractedText
    analysis,       \* useState analysis
    query,          \* useState query
    researchLoading,\* useState researchLoading
    summary,        \* useState summary
    results,        \* useState results
    toasts,         \* the error notifications shown, in order
    handler,        \* handler[c]: the handler that made call c: "none",
                    \* "await" (suspended at its await), "returned"
    saved,          \* history: the item "lang" when the page was loaded
    flips,          \* history: the parity of the language toggles
    blankCalls      \* history: the handlers that were called with a blank
                    \* input (empty, or white space only)

langVars == <<phase, lang, langUpdates, langEffect, localStorage, saved, flips>>

chatVars == <<chatInput, chatLoading, messages>>

imageVars == <<imageLoading, extractedText, analysis>>

researchVars == <<query, researchLoading, summary, results>>

pageVars ==
    <<langVars, chatVars, imageVars, researchVars, toasts, handler, blankCalls>>

vars == <<callVars, pageVars>>

NoCall == Invocation("none", Undefined, Undefined)

DefaultTimeoutMs == 60000

\* the page after its first render, loaded with the item "lang" being item
InitPage(item) ==
    /\ phase = "rendered"
    /\ lang = Str("en")
    /\ langUpdates = <<>>
    /\ langEffect = FALSE
    /\ localStorage = item
    /\ saved = item
    /\ flips = 0
    /\ chatInput = ""
    /\ chatLoading = FALSE
    /\ messages = <<>>
    /\ imageLoading = FALSE
    /\ extractedText = Null
    /\ analysis = Null
    /\ query = ""
    /\ researchLoading = FALSE
    /\ summary = Null
    /\ results = Arr(<<>>)
    /\ toasts = <<>>
    /\ handler = [c \in CallIds |-> "none"]
    /\ blankCalls = {}

InitCalls ==
    /\ pc = [c \in CallIds |-> "idle"]
    /\ call = [c \in CallIds |-> NoCall]
    /\ log = <<>>
    /\ p = [c \in CallIds |-> Pending]
    /\ wrapped = [c \in CallIds |-> Pending]
    /\ outcome = [c \in CallIds |-> Pending]
    /\ timers = {}
    /\ nextTimer = 1
    /\ t = [c \in CallIds |-> 0]
    /\ aborted = [c \in CallIds |-> FALSE]

Init == InitCalls /\ InitPage(Null)

\* fetch(url, init): the request is handed to the network
fetch(lg, c, req) == Append(lg, [call |-> c, req |-> req, signal |-> InitSignal(c)])

setTimeout(ts, id, ms) == ts \cup {[id |-> id, ms |-> ms]}

clearTimeout(ts, id) == {x \in ts : x.id # id}

\* the requests call c handed to fetch
RequestsOf(c) == SelectSeq(log, LAMBDA e : e.call = c)

\* withTimeout clearing the timer on fulfilment only
withTimeoutSettleLeak(c, s) ==
    [wrapped |-> s,
     timers  |-> IF s.state = "fulfilled" THEN clearTimeout(timers, t[c]) ELSE timers,
     log     |-> log]

\* withTimeout sending the request again when p rejects
withTimeoutSettleRetry(c, s) ==
    [wrapped |-> s,
     timers  |-> clearTimeout(timers, t[c]),
     log     |-> IF s.state = "rejected"
                 THEN log \o SelectSeq(log, LAMBDA e : e.call = c)
                 ELSE log]

\* the chain withTimeout hangs on p, run when p settles with s: the returned
\* promise settles as p did and the timer is cleared; no request is made
withTimeoutSettle(c, s) ==
    [wrapped |-> s, timers |-> clearTimeout(timers, t[c]), log |-> log]

\* a timer callback that rejects the returned promise
timerCallbackRejects(c) ==
    [aborted |-> TRUE,
     wrapped |-> IF wrapped[c].state = "pending"
                 THEN Rejected(Error(Str("Request timed out")))
                 ELSE wrapped[c]]

\* the callback withTimeout hands to setTimeout: ctrl.abort(), and nothing
\* else; the returned promise is left as it is
timerCallback(c) == [aborted |-> TRUE, wrapped |-> wrapped[c]]

\* what aborting call c's controller does to its fetch: a fetch that was
\* given the controller's signal rejects, any other goes on
abortFetch(c) ==
    IF /\ p[c].state = "pending"
       /\ \E i \in DOMAIN log : log[i].call = c /\ log[i].signal = CtrlSignal(c)
    THEN Rejected([t |-> "Error", name |-> "AbortError",
                   message |-> Str("The operation was aborted.")])
    ELSE p[c]

(***************************************************************************)
(* The steps of a call.                                                    *)
(***************************************************************************)
\* an operation is invoked: it builds its request, hands it to fetch and
\* wraps the promise with withTimeout, which starts the timer
Invoke(c, inv) ==
    /\ pc[c] = "idle"
    /\ \A d \in CallIds : d < c => pc[d] # "idle"
    /\ call' = [call EXCEPT ![c] = inv]
    /\ log' = fetch(log, c, Request(inv))
    /\ timers' = setTimeout(timers, nextTimer, DefaultTimeoutMs)
    /\ t' = [t EXCEPT ![c] = nextTimer]
    /\ nextTimer' = nextTimer + 1
    /\ pc' = [pc EXCEPT ![c] = "fetch"]
    /\ UNCHANGED <<p, wrapped, outcome, aborted>>

\* the response arrives: p fulfils, withTimeout passes it on and clears the
\* timer, and the operation calls handleJSON, which awaits res.json()
FetchFulfils(c, r) ==
    /\ pc[c] = "fetch"
    /\ p[c].state = "pending"
    /\ p' = [p EXCEPT ![c] = Fulfilled(r)]
    /\ LET w == withTimeoutSettle(c, Fulfilled(r))
       IN  /\ wrapped' = [wrapped EXCEPT ![c] = w.wrapped]
           /\ timers' = w.timers
           /\ log' = w.log
    /\ pc' = [pc EXCEPT ![c] = "json"]
    /\ UNCHANGED <<call, outcome, nextTimer, t, aborted>>

\* the response a call's handleJSON works on, were it kept in one place for
\* all calls: that of the first call that has one
awaitedShared(c) ==
    wrapped[CHOOSE d \in CallIds :
              wrapped[d].state = "fulfilled"
              /\ \A e \in CallIds : wrapped[e].state = "fulfilled" => d <= e].value

\* const res = await withTimeout(...): the response of the call's own promise
awaited(c) == wrapped[c].value

\* res.json() settles and handleJSON returns or throws: the call settles
JsonSettles(c) ==
    /\ pc[c] = "json"
    /\ LET res == awaited(c)
       IN  outcome' = [outcome EXCEPT ![c] = handleJSON(res, resJson(res))]
    /\ pc' = [pc EXCEPT ![c] = "settled"]
    /\ UNCHANGED <<call, log, p, wrapped, timers, nextTimer, t, aborted>>

\* the network fails: p rejects, withTimeout passes the reason on and clears
\* the timer, and the await in the operation throws it: the call settles.
\* The rejection of the operation's promise and the clearTimeout are
\* microtasks of the same task; no timer and no reaction of a caller runs
\* between them.
FetchRejects(c) ==
    /\ pc[c] = "fetch"
    /\ p[c].state = "pending"
    /\ p' = [p EXCEPT ![c] = Rejected(TypeError(Str("Failed to fetch")))]
    /\ LET w == withTimeoutSettle(c, Rejected(TypeError(Str("Failed to fetch"))))
       IN  /\ wrapped' = [wrapped EXCEPT ![c] = w.wrapped]
           /\ outcome' = [outcome EXCEPT ![c] = w.wrapped]
           /\ timers' = w.timers
           /\ log' = w.log
    /\ pc' = [pc EXCEPT ![c] = "settled"]
    /\ UNCHANGED <<call, nextTimer, t, aborted>>

\* the deadline elapses while the timer is pending: its callback runs
TimerFires(c) ==
    /\ \E x \in timers : x.id = t[c]
    /\ timers' = {x \in timers : x.id # t[c]}
    /\ LET f == timerCallback(c)
       IN  /\ aborted' = [aborted EXCEPT ![c] = f.aborted]
           /\ wrapped' = [wrapped EXCEPT ![c] = f.wrapped]
    /\ p' = [p EXCEPT ![c] = abortFetch(c)]
    /\ UNCHANGED <<pc, call, log, outcome, nextTimer, t>>

\* the steps of a call made of the client alone: the page is not involved
ClientInvoke(c, inv) == Invoke(c, inv) /\ UNCHANGED pageVars

ClientFetchFulfils(c, r) == FetchFulfils(c, r) /\ UNCHANGED pageVars

ClientJsonSettles(c) == JsonSettles(c) /\ UNCHANGED pageVars

ClientFetchRejects(c) == FetchRejects(c) /\ UNCHANGED pageVars

ClientTimerFires(c) == TimerFires(c) /\ UNCHANGED pageVars

\* any number of calls in flight at once
Next ==
    \E c \in CallIds :
        \/ \E inv \in SomeInvocations : ClientInvoke(c, inv)
        \/ \E r \in SomeResponses : ClientFetchFulfils(c, r)
        \/ ClientJsonSettles(c)
        \/ ClientFetchRejects(c)
        \/ ClientTimerFires(c)

Spec == Init /\ [][Next]_vars

\* one call, over every invocation and every response
NextCall ==
    \/ \E inv \in AllInvocations : ClientInvoke(1, inv)
    \/ \E r \in AllResponses : ClientFetchFulfils(1, r)
    \/ ClientJsonSettles(1)
    \/ ClientFetchRejects(1)
    \/ ClientTimerFires(1)

SpecCall == Init /\ [][NextCall]_vars

(***************************************************************************)
(* The page: the language preference.                                      *)
(***************************************************************************)
\* the items "lang" a browser can hold when the page is loaded
SavedItems == {Null, Str("en"), Str("fr"), Str("de")}

\* the first effect: localStorage.getItem("lang"), and setLang(saved) when it
\* is "en" or "fr"
readSaved(updates, item) ==
    IF item = Str("en") \/ item = Str("fr")
    THEN Append(updates, [kind |-> "set", value |-> item])
    ELSE updates

\* the toggle's update: l => (l === "en" ? "fr" : "en")
toggleLang(l) == IF l = Str("en") THEN Str("fr") ELSE Str("en")

\* the state a render computes from the queued updates, in order
RECURSIVE applyUpdates(_, _)
applyUpdates(l, updates) ==
    IF updates = <<>> THEN l
    ELSE applyUpdates(IF Head(updates).kind = "set" THEN Head(updates).value
                      ELSE toggleLang(l),
                      Tail(updates))

\* an effect that never runs again after the mount
langChangedNever(old, new) == FALSE

\* the dependencies [lang] of the second effect: it runs again after a render
\* in which lang has changed
langChanged(old, new) == new # old

\* the page is mounted: both effects run, in order, in the closure of the
\* first render (lang is "en")
MountEffects ==
    /\ phase = "rendered"
    /\ phase' = "mounted"
    /\ langUpdates' = readSaved(langUpdates, localStorage)
    /\ localStorage' = lang
    /\ UNCHANGED <<lang, langEffect, saved, flips>>
    /\ UNCHANGED <<callVars, chatVars, imageVars, researchVars, toasts, handler,
                   blankCalls>>

\* React renders the queued updates
Render ==
    /\ phase = "mounted"
    /\ langUpdates # <<>>
    /\ lang' = applyUpdates(lang, langUpdates)
    /\ langUpdates' = <<>>
    /\ langEffect' = (langEffect \/ langChanged(lang, lang'))
    /\ UNCHANGED <<phase, localStorage, saved, flips>>
    /\ UNCHANGED <<callVars, chatVars, imageVars, researchVars, toasts, handler,
                   blankCalls>>

\* the second effect runs after a render: localStorage.setItem("lang", lang)
StoreLang ==
    /\ langEffect
    /\ localStorage' = lang
    /\ langEffect' = FALSE
    /\ UNCHANGED <<phase, lang, langUpdates, saved, flips>>
    /\ UNCHANGED <<callVars, chatVars, imageVars, researchVars, toasts, handler,
                   blankCalls>>

\* a click on the language toggle: React runs the effects that are due, then
\* the handler, then renders the update and runs its effects, all in the task
\* of the click
ToggleLang ==
    /\ phase = "mounted"
    /\ LET stored == IF langEffect THEN lang ELSE localStorage
           new    == applyUpdates(lang, Append(langUpdates, [kind |-> "toggle"]))
       IN  /\ lang' = new
           /\ localStorage' = IF langChanged(lang, new) THEN new ELSE stored
    /\ langUpdates' = <<>>
    /\ langEffect' = FALSE
    /\ flips' = 1 - flips
    /\ UNCHANGED <<phase, saved>>
    /\ UNCHANGED <<callVars, chatVars, imageVars, researchVars, toasts, handler,
                   blankCalls>>

(***************************************************************************)
(* The page: the three handlers that call the client.                      *)
(***************************************************************************)
\* String.prototype.trim on the texts of the model
trim(s) == IF s \in {"", " ", "  "} THEN "" ELSE s

\* a test that lets white space through
isBlankEmptyOnly(s) == s = ""

\* !message.trim() and !q.trim()
isBlank(s) == trim(s) = ""

\* an input of white space only, or empty, as the user sees it
WhiteSpace == {"", " ", "  "}

\* msg || fallback
OrString(msg, fallback) == IF msg = Str("") THEN fallback ELSE msg

\* data.results || []
OrEmpty(v) == IF v \in {Undefined, Null, Str(""), Num(0), Bool(FALSE)} THEN Arr(<<>>) ELSE v

\* what the try block throws after the await: the rejection of the call, or
\* the TypeError of reading a property of null; Undefined when it completes
thrownAfter(o, field) ==
    IF o.state = "rejected" THEN o.value
    ELSE IF o.value = Null
         THEN TypeError(Str("Cannot read properties of null (reading '" \o field \o "')"))
         ELSE Undefined

\* e instanceof Error ? e.message : String(e)
errorText(e) == e.message

\* chatSuggestions[lang] and the research suggestions, the first of each
chatSuggestion(l) == IF l = Str("fr") THEN "Symptômes du paludisme ?"
                     ELSE "Symptoms of malaria?"
researchSuggestion(l) == IF l = Str("fr") THEN "Traitement hypertension"
                         ELSE "Hypertension treatment"

\* the texts the user types
ChatTexts == {"  ", "hi"}
QueryTexts == {" ", "flu"}

\* the files the user picks
ImageFile == [t |-> "File", name |-> "scan.png", type |-> "image/png"]
OtherFile == [t |-> "File", name |-> "notes.pdf", type |-> "application/pdf"]
PickedFiles == {ImageFile, OtherFile}
\* f.type.startsWith("image/")
isImage(f) == f.type \in {"image/png", "image/jpeg"}
notAnImage(l) == IF l = Str("fr") THEN Str("Le fichier doit être une image")
                 ELSE Str("File must be an image")
\* the files that are not images are refused at most MaxBadFiles times
MaxBadFiles == 1
BadFiles == Cardinality({i \in DOMAIN toasts :
                            toasts[i] \in {notAnImage(Str("en")), notAnImage(Str("fr"))}})

\* the handler starts a call of the client and waits for it
Await(inv) ==
    \E c \in CallIds :
        /\ Invoke(c, inv)
        /\ handler' = [handler EXCEPT ![c] = "await"]

\* a handler that is left at once
Return == UNCHANGED <<callVars, chatVars, imageVars, researchVars, toasts, handler>>

\* sendChat, up to its await
sendChat(message) ==
    /\ phase = "mounted"
    /\ blankCalls' = IF message \in WhiteSpace THEN blankCalls \cup {"sendChat"}
                     ELSE blankCalls
    /\ IF isBlank(message) THEN Return
       ELSE /\ messages' = Append(messages, [role |-> "user", text |-> Str(message),
                                             id |-> Len(messages) + 1])
            /\ chatInput' = ""
            /\ chatLoading' = TRUE
            /\ Await(Invocation("chat", Str(message), lang))
            /\ UNCHANGED <<imageVars, researchVars, toasts>>
    /\ UNCHANGED langVars

\* sendChat that sets the list to the answer alone: setMessages([ai]) where
\* the code has setMessages(m => [...m, ai])
sendChatResumeReplace(o) ==
    LET e == thrownAfter(o, "response")
    IN  /\ messages' = IF e = Undefined
                       THEN <<[role |-> "ai", text |-> Prop(o.value, "response"), id |-> 1]>>
                       ELSE messages
        /\ toasts' = IF e = Undefined THEN toasts
                     ELSE Append(toasts, OrString(errorText(e), Str("Chat failed")))
        /\ chatLoading' = FALSE
        /\ UNCHANGED <<chatInput, imageVars, researchVars>>

\* sendChat with the flag reset at the end of the try block, not in finally
sendChatResumeNoFinally(o) ==
    LET e == thrownAfter(o, "response")
    IN  /\ messages' = IF e = Undefined
                       THEN Append(messages, [role |-> "ai",
                                              text |-> Prop(o.value, "response"),
                                              id   |-> Len(messages) + 1])
                       ELSE messages
        /\ toasts' = IF e = Undefined THEN toasts
                     ELSE Append(toasts, OrString(errorText(e), Str("Chat failed")))
        /\ chatLoading' = IF e = Undefined THEN FALSE ELSE chatLoading
        /\ UNCHANGED <<chatInput, imageVars, researchVars>>

\* sendChat, from its await to its end
sendChatResume(o) ==
    LET e == thrownAfter(o, "response")
    IN  /\ messages' = IF e = Undefined
                       THEN Append(messages, [role |-> "ai",
                                              text |-> Prop(o.value, "response"),
                                              id   |-> Len(messages) + 1])
                       ELSE messages
        /\ toasts' = IF e = Undefined THEN toasts
                     ELSE Append(toasts, OrString(errorText(e), Str("Chat failed")))
        /\ chatLoading' = FALSE
        /\ UNCHANGED <<chatInput, imageVars, researchVars>>

\* handleAnalyzeImage, up to its await
handleAnalyzeImage(file) ==
    /\ imageLoading' = TRUE
    /\ extractedText' = Null
    /\ analysis' = Null
    /\ Await(Invocation("analyzeImage", file,
                        Opts("language", lang, "extract_text_only", Bool(FALSE))))
    /\ UNCHANGED <<chatVars, researchVars, toasts>>

\* handleAnalyzeImage, from its await to its end
handleAnalyzeImageResume(o) ==
    LET e == thrownAfter(o, "extracted_text")
    IN  /\ extractedText' = IF e = Undefined THEN Prop(o.value, "extracted_text")
                            ELSE extractedText
        /\ analysis' = IF e = Undefined THEN Prop(o.value, "analysis") ELSE analysis
        /\ toasts' = IF e = Undefined THEN toasts
                     ELSE Append(toasts, OrString(errorText(e), Str("Image analysis failed")))
        /\ imageLoading' = FALSE
        /\ UNCHANGED <<chatVars, researchVars>>

\* runResearch, up to its await; q is the query the caller has just set
runResearch(q) ==
    /\ phase = "mounted"
    /\ blankCalls' = IF q \in WhiteSpace THEN blankCalls \cup {"runResearch"}
                     ELSE blankCalls
    /\ IF isBlank(q) THEN UNCHANGED <<callVars, researchLoading, summary, results, handler>>
       ELSE /\ researchLoading' = TRUE
            /\ summary' = Null
            /\ results' = Arr(<<>>)
            /\ Await(Invocation("research", Str(q),
                                Opts("max_results", Num(5), "language", lang)))
    /\ UNCHANGED <<langVars, chatVars, imageVars, toasts>>

\* runResearch, from its await to its end
runResearchResume(o) ==
    LET e == thrownAfter(o, "summary")
    IN  /\ summary' = IF e = Undefined THEN Prop(o.value, "summary") ELSE summary
        /\ results' = IF e = Undefined THEN OrEmpty(Prop(o.value, "results")) ELSE results
        /\ toasts' = IF e = Undefined THEN toasts
                     ELSE Append(toasts, OrString(errorText(e), Str("Research failed")))
        /\ researchLoading' = FALSE
        /\ UNCHANGED <<query, chatVars, imageVars>>

\* the handler that waits for call c goes on in the task in which the call
\* settles
Resume(c) ==
    /\ handler[c] = "await"
    /\ handler' = [handler EXCEPT ![c] = "returned"]
    /\ CASE call[c].op = "chat"         -> sendChatResume(outcome'[c])
         [] call[c].op = "analyzeImage" -> handleAnalyzeImageResume(outcome'[c])
         [] call[c].op = "research"     -> runResearchResume(outcome'[c])
    /\ UNCHANGED <<langVars, blankCalls>>

\* the user's events
TypeChat(text) ==
    /\ phase = "mounted"
    /\ chatInput' = text
    /\ UNCHANGED <<callVars, langVars, chatLoading, messages, imageVars, researchVars,
                   toasts, handler, blankCalls>>

\* Enter in the chat input, which is never disabled
PressEnterChat ==
    /\ phase = "mounted"
    /\ sendChat(chatInput)

\* the Send button, disabled while chatLoading
ClickSend ==
    /\ ~chatLoading
    /\ sendChat(chatInput)

\* a suggested question, never disabled
ClickSuggestion ==
    /\ phase = "mounted"
    /\ sendChat(chatSuggestion(lang))

PickFile(f) ==
    /\ phase = "mounted"
    /\ IF isImage(f) THEN handleAnalyzeImage(f)
       ELSE /\ BadFiles < MaxBadFiles
            /\ toasts' = Append(toasts, notAnImage(lang))
            /\ UNCHANGED <<callVars, chatVars, imageVars, researchVars, handler>>
    /\ UNCHANGED <<langVars, blankCalls>>

TypeQuery(text) ==
    /\ phase = "mounted"
    /\ query' = text
    /\ UNCHANGED <<callVars, langVars, chatVars, imageVars, researchLoading, summary,
                   results, toasts, handler, blankCalls>>

\* Enter in the query input, which is never disabled
PressEnterResearch ==
    /\ query' = query
    /\ runResearch(query)

\* the Search button, disabled while researchLoading
ClickSearch ==
    /\ ~researchLoading
    /\ query' = query
    /\ runResearch(query)

ClickResearchSuggestion ==
    /\ query' = researchSuggestion(lang)
    /\ runResearch(researchSuggestion(lang))

\* the steps of a call, with the handler that waits for it
PageJsonSettles(c) ==
    /\ JsonSettles(c)
    /\ Resume(c)

PageFetchRejects(c) ==
    /\ FetchRejects(c)
    /\ Resume(c)

\* the responses of the server to each operation
PageResponses(op) ==
    CASE op = "chat" -> {Response(200, "OK", BodyChat), Response(200, "OK", BodyHtml),
                         Response(404, "Not Found", BodyDetail)}
      [] op = "analyzeImage" -> {Response(200, "OK", BodyImage),
                                 Response(200, "OK", BodyImage2),
                                 Response(500, "", BodyHtml)}
      [] op = "research" -> {Response(200, "OK", BodyResearch),
                             Response(200, "OK", BodyResearch2),
                             Response(404, "Not Found", BodyDetail)}
      [] OTHER -> {}

\* the server answers call c; the handler still waits, for res.json()
PageFetchFulfils(c) ==
    \E r \in PageResponses(call[c].op) :
        /\ FetchFulfils(c, r)
        /\ UNCHANGED pageVars

\* The specifications of the page leave out TimerFires: the timer callback
\* changes the timers and the abort flags only, which no handler reads.

\* the page with its language preference: the page is loaded with any saved
\* item, the user toggles the language and sends suggested questions
InitLang == InitCalls /\ \E item \in SavedItems : InitPage(item)

NextLang ==
    \/ MountEffects
    \/ Render
    \/ StoreLang
    \/ ToggleLang
    \/ ClickSuggestion
    \/ \E c \in CallIds :
        \/ PageFetchFulfils(c)
        \/ PageJsonSettles(c)
        \/ PageFetchRejects(c)

SpecLang == InitLang /\ [][NextLang]_vars

\* the page with its three handlers, loaded with no saved language: the
\* user clicks suggestions, picks files and repeats the query shown
NextPage ==
    \/ MountEffects
    \/ ClickSuggestion
    \/ \E f \in PickedFiles : PickFile(f)
    \/ PressEnterResearch
    \/ ClickSearch
    \/ ClickResearchSuggestion
    \/ \E c \in CallIds :
        \/ PageFetchFulfils(c)
        \/ PageJsonSettles(c)
        \/ PageFetchRejects(c)

SpecPage == Init /\ [][NextPage]_vars

\* the page with its two text inputs: the user types a message or a query
\* and submits it with Enter or with the button
NextInput ==
    \/ MountEffects
    \/ \E text \in ChatTexts : TypeChat(text)
    \/ PressEnterChat
    \/ ClickSend
    \/ \E text \in QueryTexts : TypeQuery(text)
    \/ PressEnterResearch
    \/ ClickSearch
    \/ \E c \in CallIds :
        \/ PageFetchFulfils(c)
        \/ PageJsonSettles(c)
        \/ PageFetchRejects(c)

SpecInput == Init /\ [][NextInput]_vars

(***************************************************************************)
(* The claims.                                                             *)
(***************************************************************************)
Settled(c) == pc[c] = "settled"

\* the response call c received
ResOf(c) == p[c].value

\* call c received a response whose status is not 2xx, and has settled
FailedWith(c) ==
    /\ Settled(c)
    /\ p[c].state = "fulfilled"
    /\ ~ResponseOk(ResOf(c))

\* the parsed body holds a string under the key
HasString(j, key) ==
    /\ j.ok
    /\ j.value.t = "object"
    /\ key \in DOMAIN j.value.v
    /\ j.value.v[key].t = "string"

\* C1: a call whose deadline elapsed before the response arrived (its timer
\* fired) has failed: the promise it returned is rejected.
C1_TimeoutRejects ==
    \A c \in CallIds : aborted[c] => outcome[c].state = "rejected"

\* C2: a non-2xx response whose JSON body has a string "detail" X makes the
\* call throw an Error with message exactly X, whatever the status text and
\* the other fields of the body.
C2_DetailIsMessage ==
    \A c \in CallIds :
        FailedWith(c) /\ HasString(JSONparse(ResOf(c).body), "detail")
        => outcome[c] =
             Rejected(Error(JSONparse(ResOf(c).body).value.v["detail"]))

C2_Witness ==
    /\ FailedWith(1)
    /\ ResOf(1).body = BodyBoth
    /\ ResOf(1).statusText = "Status Text"
    /\ outcome[1] = Rejected(Error(Str("X")))

\* C3: a non-2xx response whose JSON body has no string-valued "detail"
\* (absent, or not a string) and a string "message" Y makes the call throw an
\* Error with message exactly Y.
C3_MessageIsMessage ==
    \A c \in CallIds :
        /\ FailedWith(c)
        /\ ~HasString(JSONparse(ResOf(c).body), "detail")
        /\ HasString(JSONparse(ResOf(c).body), "message")
        => outcome[c] =
             Rejected(Error(JSONparse(ResOf(c).body).value.v["message"]))

C3_Witness ==
    /\ FailedWith(1)
    /\ ResOf(1).body = BodyDetailNumber
    /\ outcome[1] = Rejected(Error(Str("Y")))

\* C4: a non-2xx response whose body does not parse as JSON makes the call
\* throw an Error whose message is the status text when that is not empty,
\* and "Request failed" when it is empty.
C4_UnparsableBodyMessage ==
    \A c \in CallIds :
        FailedWith(c) /\ ~JSONparse(ResOf(c).body).ok
        => outcome[c] =
             Rejected(Error(Str(IF ResOf(c).statusText # ""
                                THEN ResOf(c).statusText
                                ELSE "Request failed")))

\* C5: a 2xx response whose body is well-formed JSON makes the call resolve
\* with exactly the parsed body, whatever its shape.
C5_SuccessIsParsedBody ==
    \A c \in CallIds :
        /\ Settled(c)
        /\ p[c].state = "fulfilled"
        /\ ResponseOk(ResOf(c))
        /\ JSONparse(ResOf(c).body).ok
        => outcome[c] = Fulfilled(JSONparse(ResOf(c).body).value)

C5_Witness ==
    /\ Settled(1)
    /\ call[1].op = "chat"
    /\ ResOf(1) = Response(201, "", BodyChat)
    /\ outcome[1] =
         Fulfilled(Obj(Fields3("response", Str("R"), "language", Str("en"),
                               "timestamp", Str("T"))))

\* the value an invocation supplies for an option: undefined when the options
\* are omitted or do not hold the key
Supplied(opts, key) ==
    IF opts # Undefined /\ key \in DOMAIN opts.v THEN opts.v[key] ELSE Undefined

\* the request call c handed to fetch carries exactly one member of that name,
\* with that value
Sends(c, name, value) ==
    /\ Len(RequestsOf(c)) = 1
    /\ Members(RequestsOf(c)[1].req.body, name) = << <<name, value>> >>

\* what is sent for an argument: the value supplied, else the default
OrElse(x, d) == IF x = Undefined THEN d ELSE x

\* C6: the request sent carries the defaults of the omitted arguments
\* (language "en", context "", max_results 5, extract_text_only "false") and
\* every supplied argument unchanged.
C6_Defaults ==
    \A c \in CallIds :
        pc[c] # "idle" =>
            LET inv == call[c]
            IN  CASE inv.op = "chat" ->
                       /\ Sends(c, "message", inv.a1)
                       /\ Sends(c, "language", OrElse(inv.a2, Str("en")))
                  [] inv.op = "analyzeText" ->
                       /\ Sends(c, "text", inv.a1)
                       /\ Sends(c, "context",
                                OrElse(Supplied(inv.a2, "context"), Str("")))
                       /\ Sends(c, "language",
                                OrElse(Supplied(inv.a2, "language"), Str("en")))
                  [] inv.op = "analyzeImage" ->
                       /\ Sends(c, "file", inv.a1)
                       /\ Sends(c, "language",
                                OrElse(Supplied(inv.a2, "language"), Str("en")))
                       /\ Sends(c, "extract_text_only",
                                IF Supplied(inv.a2, "extract_text_only") = Bool(TRUE)
                                THEN Str("true") ELSE Str("false"))
                  [] inv.op = "extractText" ->
                       Sends(c, "file", inv.a1)
                  [] inv.op = "research" ->
                       /\ Sends(c, "query", inv.a1)
                       /\ Sends(c, "max_results",
                                OrElse(Supplied(inv.a2, "max_results"), Num(5)))
                       /\ Sends(c, "language",
                                OrElse(Supplied(inv.a2, "language"), Str("en")))

C6_Witness ==
    /\ call[1] = Invocation("research", Str("x"),
                            Obj(Fields1("max_results", Num(10))))
    /\ Sends(1, "max_results", Num(10))
    /\ Sends(1, "language", Str("en"))

\* what call c's own request brought: the error of its own failure, or what
\* handleJSON makes of its own response
OwnOutcome(c) ==
    IF p[c].state = "rejected" THEN p[c]
    ELSE IF ResponseOk(ResOf(c))
         THEN Fulfilled(IF JSONparse(ResOf(c).body).ok
                        THEN JSONparse(ResOf(c).body).value ELSE Null)
         ELSE handleJSON(ResOf(c), JSONparse(ResOf(c).body))

\* C7: whatever calls are in flight together and in whatever order their
\* responses, failures and timers arrive, a settled call holds the outcome of
\* its own request, and an unsettled call holds none.
C7_NoInterference ==
    \A c \in CallIds :
        /\ Settled(c) => outcome[c] = OwnOutcome(c)
        /\ ~Settled(c) => outcome[c] = Pending

C7_Witness ==
    /\ Settled(1) /\ Settled(2)
    /\ call[1].op = "chat" /\ call[2].op = "research"
    /\ aborted[1] /\ ~aborted[2]
    /\ outcome[1] = Rejected(Error(Str("X")))
    /\ outcome[2].state = "fulfilled"
    /\ outcome[2].value = JSONparse(BodyResearch).value

TimerPending(c) == \E x \in timers : x.id = t[c]

\* C8: the timer of a settled call is not pending, and a call that has not
\* got its response yet still has its own timer unless that timer has fired:
\* each call clears its own timer and no other.
C8_TimerCleanup ==
    \A c \in CallIds :
        /\ Settled(c) => ~TimerPending(c)
        /\ pc[c] = "json" => ~TimerPending(c)
        /\ pc[c] = "fetch" /\ ~aborted[c] => TimerPending(c)

C8_Witness ==
    /\ Settled(1) /\ outcome[1].state = "rejected" /\ p[1].state = "rejected"
    /\ pc[2] = "fetch" /\ ~aborted[2]
    /\ timers = {[id |-> t[2], ms |-> DefaultTimeoutMs]}

\* C9: every invocation hands exactly one request to fetch, however the call
\* ends (success, non-2xx, network failure, after a timeout); a call that has
\* not been made has handed none.
C9_OneRequest ==
    \A c \in CallIds :
        Len(RequestsOf(c)) = IF pc[c] = "idle" THEN 0 ELSE 1

C9_Witness ==
    /\ Settled(1) /\ p[1].state = "rejected" /\ aborted[1]
    /\ Settled(2) /\ outcome[2].state = "rejected" /\ p[2].state = "fulfilled"
    /\ Len(log) = 2

\* C10: the firing of the timer does not cancel the request: a call whose
\* timer has fired and whose response has not arrived still has its request
\* in flight (its fetch promise is pending, not rejected by an abort).
C10_TimeoutLeavesRequest ==
    \A c \in CallIds :
        aborted[c] /\ pc[c] = "fetch" => p[c].state = "pending"

C10_Witness ==
    /\ aborted[1]
    /\ Settled(1)
    /\ p[1] = Fulfilled(Response(200, "OK", BodyChat))
    /\ outcome[1].state = "fulfilled"

\* C13: a non-2xx response whose body parses as JSON and holds neither a
\* string "detail" nor a string "message" (objects, and null, numbers,
\* strings, arrays) makes the call throw an Error whose message is the status
\* text, and "Request failed" when there is no status text.
C13_NoFieldMessage ==
    \A c \in CallIds :
        /\ FailedWith(c)
        /\ JSONparse(ResOf(c).body).ok
        /\ ~HasString(JSONparse(ResOf(c).body), "detail")
        /\ ~HasString(JSONparse(ResOf(c).body), "message")
        => outcome[c] =
             Rejected(Error(Str(IF ResOf(c).statusText # ""
                                THEN ResOf(c).statusText
                                ELSE "Request failed")))

C20_SuccessUnparsableIsNull ==
    \A c \in CallIds :
        /\ Settled(c)
        /\ p[c].state = "fulfilled"
        /\ ResponseOk(ResOf(c))
        /\ ~JSONparse(ResOf(c).body).ok
        => outcome[c] = Fulfilled(Null)

C20_Witness ==
    /\ Settled(1)
    /\ call[1].op = "research"
    /\ ResOf(1) = Response(200, "Status Text", BodyHtml)
    /\ outcome[1] = Fulfilled(Null)


\* the page is mounted and no render and no effect is due
Quiescent == phase = "mounted" /\ langUpdates = <<>> /\ ~langEffect

\* the language the page starts in, given the item saved in the browser
StartLang == IF saved \in {Str("en"), Str("fr")} THEN saved ELSE Str("en")

\* C11: the language is "en" or "fr"; it starts as the saved item when that
\* is "en" or "fr" and as "en" otherwise, each toggle flips it, and once the
\* effects have run the stored item is the current language
C11_LangPersistence ==
    /\ lang \in {Str("en"), Str("fr")}
    /\ Quiescent =>
        /\ localStorage = lang
        /\ lang = IF flips = 0 THEN StartLang ELSE toggleLang(StartLang)

\* the page was loaded with "fr" saved, and the user has toggled to "en"
C11_Witness ==
    /\ Quiescent
    /\ saved = Str("fr")
    /\ flips = 1
    /\ lang = Str("en")
    /\ localStorage = Str("en")

\* the text a handler shows when the error it caught has an empty message
FailText(op) ==
    CASE op = "chat" -> Str("Chat failed")
      [] op = "analyzeImage" -> Str("Image analysis failed")
      [] op = "research" -> Str("Research failed")

\* the handler that awaits call c ends in this step
Ends(c) == handler[c] = "await" /\ handler'[c] # "await"

\* C12: when a handler's call settles the handler returns and its loading
\* flag is false; when the call has failed it has shown one notification,
\* the text of the error (or the handler's own text when that is empty)
C12_FailuresCaught ==
    [][\A c \in CallIds : Ends(c) =>
        /\ handler'[c] = "returned"
        /\ call[c].op = "chat" => ~chatLoading'
        /\ call[c].op = "analyzeImage" => ~imageLoading'
        /\ call[c].op = "research" => ~researchLoading'
        /\ outcome'[c].state = "rejected" =>
             toasts' = Append(toasts, OrString(outcome'[c].value.message,
                                               FailText(call[c].op)))
        /\ outcome'[c].state = "fulfilled" => Len(toasts') <= Len(toasts) + 1]_vars

\* a chat and an image analysis have both failed, one with an empty message:
\* both handlers have returned, two notifications are shown and no flag is set
C12_Witness ==
    /\ handler[1] = "returned" /\ handler[2] = "returned"
    /\ outcome[1].state = "rejected" /\ outcome[2].state = "rejected"
    /\ call[1].op = "chat"
    /\ call[2].op = "analyzeImage"
    /\ toasts = <<Str("X"), Str("Image analysis failed")>>
    /\ ~chatLoading /\ ~imageLoading /\ ~researchLoading

\* the calls the page has made of one operation, and the last of them issued
\* (calls are numbered in the order in which they are issued)
CallsOf(op) == {c \in CallIds : handler[c] # "none" /\ call[c].op = op}
LastOf(op) == CHOOSE c \in CallsOf(op) : \A d \in CallsOf(op) : d <= c

\* the call has resolved with a parsed body
Succeeded(c) == outcome[c].state = "fulfilled" /\ outcome[c].value # Null

\* C15: once two or more research calls have all resolved and their handlers
\* have returned, the summary and the results shown are those of the
\* response to the query issued last
C15_LatestQueryShown ==
    (/\ Cardinality(CallsOf("research")) >= 2
     /\ \A c \in CallsOf("research") : handler[c] = "returned" /\ Succeeded(c))
    => /\ summary = Prop(outcome[LastOf("research")].value, "summary")
       /\ results = OrEmpty(Prop(outcome[LastOf("research")].value, "results"))

\* a chat request started by sendChat is in flight
ChatInFlight == \E c \in CallsOf("chat") : handler[c] = "await"

\* C16: chatLoading is true while a chat request is in flight
C16_LoadingWhileInFlight == ChatInFlight => chatLoading

\* a handler starts call c in this step
Starts(c) == handler[c] = "none" /\ handler'[c] = "await"

\* the entries of one role among the first n messages
Entries(role, n) == {i \in 1..n : messages[i].role = role}

\* the list only grows, by one entry at a time
AppendOnly ==
    /\ Len(messages') \in {Len(messages), Len(messages) + 1}
    /\ SubSeq(messages', 1, Len(messages)) = messages

\* a send appends the user's entry in the step that issues the request
SendAppendsUser ==
    \A c \in CallIds : (Starts(c) /\ call'[c].op = "chat") =>
        messages' = Append(messages, [role |-> "user", text |-> call'[c].a1,
                                      id |-> Len(messages) + 1])

\* up to any place in the list there are no more answers than questions
AnswersFollow ==
    \A n \in 0..Len(messages) :
        Cardinality(Entries("ai", n)) <= Cardinality(Entries("user", n))

\* the entry that holds the answer of call c
AiEntry(c) == [role |-> "ai", text |-> Prop(outcome'[c].value, "response"),
               id |-> Len(messages) + 1]

C18_BlankIsNoOp ==
    [][blankCalls' # blankCalls =>
        UNCHANGED <<callVars, langVars, chatVars, imageVars, researchVars, toasts,
                    handler>>]_vars

\* both handlers were called with white space, typed into the two inputs:
\* no request was issued and the page shows what it showed
C18_Witness ==
    /\ blankCalls = {"sendChat", "runResearch"}
    /\ chatInput = "  "
    /\ query = " "
    /\ log = <<>>
    /\ messages = <<>>
    /\ summary = Null /\ results = Arr(<<>>)
    /\ ~chatLoading /\ ~researchLoading

\* the text and the analysis shown are both null, or both those of one
\* response to an image analysis
ShownFromOneResponse ==
    \/ extractedText = Null /\ analysis = Null
    \/ \E c \in CallsOf("analyzeImage") :
        /\ Succeeded(c)
        /\ extractedText = Prop(outcome[c].value, "extracted_text")
        /\ analysis = Prop(outcome[c].value, "analysis")

\* C19: an image analysis clears the text and the analysis when it starts;
\* when its call fails they are null, when it resolves with a parsed body
\* they are those of that body; at all times they come from one response
C19_NoStaleImageResult ==
    [][/\ ShownFromOneResponse
       /\ \A c \in CallIds :
            /\ (Starts(c) /\ call'[c].op = "analyzeImage") =>
                 extractedText' = Null /\ analysis' = Null
            /\ (Ends(c) /\ call[c].op = "analyzeImage") =>
                 /\ outcome'[c].state = "rejected" =>
                      extractedText' = Null /\ analysis' = Null
                 /\ (outcome'[c].state = "fulfilled" /\ outcome'[c].value # Null) =>
                      /\ extractedText' = Prop(outcome'[c].value, "extracted_text")
                      /\ analysis' = Prop(outcome'[c].value, "analysis")]_vars
=============================================================================
